---------------------------- MODULE Spec2Model ----------------------------
(***************************************************************************)
(* State-machine model of the two reveal.js plugins of this repository:    *)
(*   - RevealPrint (src/print/print.js): listener registration, export     *)
(*     mode detection, media/title set-up, footer relocation, print timer. *)
(*   - RevealMath  (src/unnamed/part_000): script loader with single-fire  *)
(*     callback, engine start-up chain, equation-link fix-up.              *)
(* JavaScript strings are modelled as sequences of one-character strings,  *)
(* with 0-based indices as in the source.                                  *)
(***************************************************************************)
EXTENDS Integers, Sequences, FiniteSets

VARIABLES
    \* ---- RevealPrint (src/print/print.js) ----
    search,         \* window.location.search
    pathname,       \* window.location.pathname
    webdriver,      \* navigator.webdriver
    printPc,        \* "start" before init, "returned" after init returned
    printSettled,   \* the promise returned by RevealPrint.init is settled
    listeners,      \* Reveal listeners, in registration order: <<event, handler>>
    title,          \* document.title
    iframes,        \* iframe elements of the document
    videos,         \* video elements of the document
    slides,         \* Reveal.getSlides(): the section elements
    current,        \* index of Reveal.getCurrentSlide()
    consoleErrors,  \* console.error output of checkHeight
    readyFired,     \* the host dispatched 'ready'
    pdfReadyCount,  \* number of 'pdf-ready' events the host dispatched
    timers,         \* pending setTimeout(window.print, 1000) timers
    printCalls,     \* number of window.print invocations
    domAtLoad,      \* the document as loaded: title, iframes, videos, slides
    \* ---- RevealMath (src/unnamed/part_000) ----
    options,        \* Reveal.getConfig().math || {}
    windowMathJax,  \* window.MathJax (<<>>, no keys, before init)
    script,         \* the script element appended to head
    callback,       \* loadScript's captured callback: "function" or "null"
    callbackCalls,  \* number of invocations of the callback
    notifications,  \* loading notifications delivered to the script element
    mathLog,        \* events of the initialisation chain, in order
    promise,        \* MathJax.startup.promise: "none", "pending", "fulfilled", "rejected"
    mathPc,         \* position of RevealMath.init's asynchronous chain
    mathSettled,    \* the promise returned by RevealMath.init is settled
    anchors,        \* document.getElementsByTagName("a"), in document order
    elements,       \* elements carrying an id, in document order
    fixRuns,        \* completed or aborted runs of fixLinks
    anchorsRun1,    \* the anchors as the first run of fixLinks left them
    anchorsAtLoad   \* the anchors of the document as loaded

printVars == <<search, pathname, webdriver, printPc, printSettled, listeners,
               title, iframes, videos, slides, current, consoleErrors,
               readyFired, pdfReadyCount, timers, printCalls, domAtLoad>>

mathVars == <<options, windowMathJax, script, callback, callbackCalls,
              notifications, mathLog, promise, mathPc, mathSettled,
              anchors, elements, fixRuns, anchorsRun1, anchorsAtLoad>>

vars == <<printVars, mathVars>>

-----------------------------------------------------------------------------
(* Bounds of the model *)

MaxPathLen == 4         \* longest generated pathname
MaxChildren == 2        \* child nodes of a generated slide
MaxKids == 2            \* child nodes of a generated wrapper element
MaxFooters == 2         \* footer elements of a generated slide
MaxPdfReady == 2        \* 'pdf-ready' events the host may dispatch
MaxSlideChanged == 1    \* 'slidechanged' events the host may dispatch
MaxNotifications == 3   \* loading notifications on the script element
MaxLinks == 2           \* anchors of a generated document
MaxFixRuns == 2         \* runs of fixLinks in the link fix-up specification

-----------------------------------------------------------------------------
(* JavaScript string primitives on sequences of characters *)

Min(a, b) == IF a < b THEN a ELSE b
Max(a, b) == IF a > b THEN a ELSE b

\* String.prototype.lastIndexOf(ch): 0-based index of the last ch, -1 if none
lastIndexOf(s, ch) ==
    LET hits == {i \in 1..Len(s) : s[i] = ch}
    IN  IF hits = {} THEN -1
        ELSE (CHOOSE i \in hits : \A j \in hits : j <= i) - 1

\* String.prototype.substring(start, end): arguments clamped to [0, length],
\* swapped when start > end; end is exclusive
substring(s, start, end) ==
    LET a == Max(0, Min(start, Len(s)))
        b == Max(0, Min(end, Len(s)))
    IN  SubSeq(s, Min(a, b) + 1, Max(a, b))

\* String.prototype.substring(start)
substringFrom(s, start) == substring(s, start, Len(s))

\* String.prototype.includes(sub)
includes(s, sub) ==
    \E i \in 1..(Len(s) - Len(sub) + 1) : SubSeq(s, i, i + Len(sub) - 1) = sub

\* case folding of the letters of "print-pdf", as the regular expression's
\* i flag compares them
Fold(ch) ==
    CASE ch = "P" -> "p" [] ch = "R" -> "r" [] ch = "I" -> "i"
      [] ch = "N" -> "n" [] ch = "T" -> "t" [] ch = "D" -> "d"
      [] ch = "F" -> "f" [] OTHER -> ch

FoldAll(s) == [i \in 1..Len(s) |-> Fold(s[i])]

\* an attribute of an element: absent, or present with a value
NoAttr == [has |-> FALSE, val |-> <<>>]
Attr(v) == [has |-> TRUE, val |-> v]

RemoveAt(s, i) == SubSeq(s, 1, i - 1) \o SubSeq(s, i + 1, Len(s))

RECURSIVE SortedSeq(_)
SortedSeq(S) ==
    IF S = {} THEN <<>>
    ELSE LET m == CHOOSE x \in S : \A y \in S : x <= y
         IN  <<m>> \o SortedSeq(S \ {m})

-----------------------------------------------------------------------------
(* RevealPrint: src/print/print.js *)

\* Reveal.getConfig().height
configHeight == 700

\* setHeight: every slide's style.minHeight becomes height + "px"
setHeight(ss) ==
    [k \in 1..Len(ss) |-> [ss[k] EXCEPT !.minHeight = Attr(<<configHeight, "px">>)]]

\* slide.getElementsByClassName('footer'): the live collection, as the paths
\* of the footer elements in document order (<<i>>: i-th child of the slide,
\* <<i, j>>: j-th child of the slide's i-th child)
RECURSIVE FooterPathsFrom(_, _)
FooterPathsFrom(children, i) ==
    IF i > Len(children) THEN <<>>
    ELSE LET c == children[i]
             own == IF c.cls = "footer" THEN << <<i>> >> ELSE <<>>
             js == SortedSeq({j \in 1..Len(c.kids) : c.kids[j].cls = "footer"})
             inner == [n \in 1..Len(js) |-> <<i, js[n]>>]
         IN  own \o inner \o FooterPathsFrom(children, i + 1)

getFooters(children) == FooterPathsFrom(children, 1)

\* the for loop of fixFooters over one slide: footers is live, so it is
\* re-read after every move; i only ever increases
RECURSIVE fixFootersLoop(_, _)
fixFootersLoop(children, i) ==
    LET footers == getFooters(children)
    IN  IF i >= Len(footers) THEN children
        ELSE LET p == footers[i + 1]
             IN  IF Len(p) = 2 /\ children[p[1]].tag = "P"
                 THEN LET parent == children[p[1]]
                          footer == parent.kids[p[2]]
                          parent2 == [parent EXCEPT !.kids = RemoveAt(parent.kids, p[2])]
                          moved == Append([children EXCEPT ![p[1]] = parent2], footer)
                          after == IF Len(parent2.kids) = 0
                                   THEN RemoveAt(moved, p[1])
                                   ELSE moved
                      IN  fixFootersLoop(after, i + 1)
                 ELSE fixFootersLoop(children, i + 1)

fixFooters(ss) ==
    [k \in 1..Len(ss) |-> [ss[k] EXCEPT !.children = fixFootersLoop(ss[k].children, 0)]]

\* slideNumber: Reveal.getIndices() of a flat deck is {h: k-1, v: 0}
slideNumber(idx) ==
    IF idx.v > 0 THEN <<"(h:", idx.h + 1, ", v:", idx.v + 1, ")">> ELSE <<idx.h + 1>>

\* checkHeight: the console.error output for current slide k, <<>> if none
checkHeight(ss, k) ==
    LET slideHeight == ss[k].clientHeight
    IN  IF slideHeight > configHeight
        THEN << <<"slide ", slideNumber([h |-> k - 1, v |-> 0]), " is ",
                  slideHeight - configHeight, "px too high">> >>
        ELSE <<>>

\* setupIframes: iframes matching '.reveal section iframe.pdf' with a
\* data-src attribute get it as their src
setupIframes(fs) ==
    [k \in 1..Len(fs) |->
        IF fs[k].pdf /\ fs[k].dataSrc.has
        THEN [fs[k] EXCEPT !.src = Attr(fs[k].dataSrc.val)]
        ELSE fs[k]]

StartTime == <<"#", "t", "=", "0", ".", "5">>
TimeMark == <<"#", "t", "=">>

withStartTime(src) == IF ~includes(src, TimeMark) THEN src \o StartTime ELSE src

\* setupVideos, first loop: video elements
setupVideos(vs) ==
    [k \in 1..Len(vs) |->
        IF vs[k].dataSrc.has
        THEN [vs[k] EXCEPT !.src = Attr(withStartTime(vs[k].dataSrc.val)),
                           !.dataSrc = NoAttr,
                           !.controls = FALSE]
        ELSE [vs[k] EXCEPT !.controls = FALSE]]

\* setupVideos, second loop: data-background-video of the sections
setupBackgroundVideos(ss) ==
    [k \in 1..Len(ss) |->
        IF ss[k].bgVideo.has
        THEN [ss[k] EXCEPT !.bgVideo = Attr(withStartTime(ss[k].bgVideo.val))]
        ELSE ss[k]]

\* setupTitle: the new document.title
setupTitle(path) ==
    LET url == path
        filename == substringFrom(url, lastIndexOf(url, "/") + 1)
        basename == substring(filename, 0, lastIndexOf(url, "."))
    IN  basename \o <<"p", "d", "f">>

PrintPdf == <<"p", "r", "i", "n", "t", "-", "p", "d", "f">>

\* !!window.location.search.match(/print-pdf/gi)
isPrintPdf_caseSensitive(query) == includes(query, PrintPdf)
isPrintPdf(query) == includes(FoldAll(query), PrintPdf)

\* the listeners init registers, in order
initListeners_noFooters(pdf, wd) ==
    << <<"slidechanged", "checkHeight">>, <<"ready", "setHeight">> >>
    \o (IF pdf /\ ~wd THEN << <<"pdf-ready", "printLater">> >> ELSE <<>>)
initListeners_ignoreWebdriver(pdf, wd) ==
    << <<"slidechanged", "checkHeight">>, <<"ready", "setHeight">>,
       <<"ready", "fixFooters">> >>
    \o (IF pdf THEN << <<"pdf-ready", "printLater">> >> ELSE <<>>)
initListeners(pdf, wd) ==
    << <<"slidechanged", "checkHeight">>, <<"ready", "setHeight">>,
       <<"ready", "fixFooters">> >>
    \o (IF pdf /\ ~wd THEN << <<"pdf-ready", "printLater">> >> ELSE <<>>)

\* number of listeners registered for event ev with handler h
Registered(ev, h) == Cardinality({k \in 1..Len(listeners) : listeners[k] = <<ev, h>>})

\* RevealPrint.init: the promise executor runs synchronously to resolve()
PrintInit ==
    /\ printPc = "start"
    /\ LET pdf == isPrintPdf(search)
       IN  /\ listeners' = listeners \o initListeners(pdf, webdriver)
           /\ iframes' = IF pdf THEN setupIframes(iframes) ELSE iframes
           /\ videos' = IF pdf THEN setupVideos(videos) ELSE videos
           /\ slides' = IF pdf THEN setupBackgroundVideos(slides) ELSE slides
           /\ title' = IF pdf THEN setupTitle(pathname) ELSE title
    /\ printSettled' = TRUE
    /\ printPc' = "returned"
    /\ UNCHANGED <<search, pathname, webdriver, current, consoleErrors,
                   readyFired, pdfReadyCount, timers, printCalls, domAtLoad>>
    /\ UNCHANGED mathVars

\* the host dispatches 'ready': setHeight, then fixFooters, if registered
Ready ==
    /\ printPc = "returned"
    /\ ~readyFired
    /\ readyFired' = TRUE
    /\ LET s1 == IF Registered("ready", "setHeight") > 0 THEN setHeight(slides) ELSE slides
           s2 == IF Registered("ready", "fixFooters") > 0 THEN fixFooters(s1) ELSE s1
       IN  slides' = s2
    /\ UNCHANGED <<search, pathname, webdriver, printPc, printSettled, listeners,
                   title, iframes, videos, current, consoleErrors,
                   pdfReadyCount, timers, printCalls, domAtLoad>>
    /\ UNCHANGED mathVars

\* the host dispatches 'slidechanged' with slide k now current: checkHeight
SlideChanged ==
    /\ printPc = "returned"
    /\ Len(consoleErrors) < MaxSlideChanged
    /\ \E k \in 1..Len(slides) :
        /\ current' = k
        /\ consoleErrors' = IF Registered("slidechanged", "checkHeight") > 0
                            THEN consoleErrors \o checkHeight(slides, k)
                            ELSE consoleErrors
    /\ UNCHANGED <<search, pathname, webdriver, printPc, printSettled, listeners,
                   title, iframes, videos, slides, readyFired,
                   pdfReadyCount, timers, printCalls, domAtLoad>>
    /\ UNCHANGED mathVars

\* the host dispatches 'pdf-ready': every registered print listener starts
\* a timer, setTimeout(window.print, 1000)
PdfReady ==
    /\ printPc = "returned"
    /\ pdfReadyCount < MaxPdfReady
    /\ pdfReadyCount' = pdfReadyCount + 1
    /\ timers' = timers + Registered("pdf-ready", "printLater")
    /\ UNCHANGED <<search, pathname, webdriver, printPc, printSettled, listeners,
                   title, iframes, videos, slides, current, consoleErrors,
                   readyFired, printCalls, domAtLoad>>
    /\ UNCHANGED mathVars

\* a timer's delay has elapsed: window.print()
TimerFires ==
    /\ timers > 0
    /\ timers' = timers - 1
    /\ printCalls' = printCalls + 1
    /\ UNCHANGED <<search, pathname, webdriver, printPc, printSettled, listeners,
                   title, iframes, videos, slides, current, consoleErrors,
                   readyFired, pdfReadyCount, domAtLoad>>
    /\ UNCHANGED mathVars

PrintNext == PrintInit \/ Ready \/ SlideChanged \/ PdfReady \/ TimerFires

-----------------------------------------------------------------------------
(* RevealMath: src/unnamed/part_000 *)

\* the literal assigned to window.MathJax by init
BuiltInConfig ==
    [ loader  |-> [load |-> <<"[tex]/ams">>, typeset |-> FALSE],
      startup |-> [ready |-> "log 'MathJax is loaded, but not yet initialized'"],
      svg     |-> [ scale |-> "1.5", minScale |-> ".5", matchFontHeight |-> FALSE,
                    mtextInheritFont |-> TRUE, merrorInheritFont |-> TRUE,
                    mathmlSpacing |-> FALSE, skipAttributes |-> <<>>,
                    exFactor |-> ".5", displayAlign |-> "center",
                    displayIndent |-> "0", fontCache |-> "none",
                    localID |-> "null", internalSpeechTitles |-> TRUE,
                    titleID |-> 0 ],
      tex     |-> [ tags |-> "ams",
                    packages |-> [k \in {"[+]"} |-> <<"ams">>],
                    macros |->
                      [ R |-> <<"{{\\mathrm{{I}\\kern-.15em{R}}}}">>,
                        laplace |-> <<"{\\Delta}">>,
                        grad |-> <<"{\\nabla}">>,
                        T |-> <<"^{\\mathsf{T}}">>,
                        abs |-> <<"\\left\\lvert #1 \\right\\rvert", 1>>,
                        norm |-> <<"\\left\\Vert #1 \\right\\Vert", 1>>,
                        iprod |-> <<"\\left\\langle #1 \\right\\rangle", 1>>,
                        vec |-> <<"{\\mathbf{#1}}", 1>>,
                        mat |-> <<"{\\mathbf{#1}}", 1>>,
                        set |-> <<"\\mathcal{#1}", 1>>,
                        func |-> <<"\\mathrm{#1}", 1>>,
                        trans |-> <<"{#1}\\mkern-1mu^{\\mathsf{T}}", 1>>,
                        matrix |-> <<"\\begin{bmatrix} #1 \\end{bmatrix}", 1>>,
                        vector |-> <<"\\begin{pmatrix} #1 \\end{pmatrix}", 1>>,
                        of |-> <<"\\mkern{-0mu}\\left( #1 \\right)", 1>>,
                        diff |-> <<"\\frac{\\mathrm{d}{#1}}{\\mathrm{d}{#2}}", 2>>,
                        pdiff |-> <<"\\frac{\\partial {#1}}{\\partial {#2}}", 2>> ] ] ]

\* defaults(options, defaultOptions): options with every key it lacks taken
\* from defaultOptions
defaults(opts, defaultOptions) ==
    [i \in (DOMAIN opts) \cup (DOMAIN defaultOptions) |->
        IF i \in DOMAIN opts THEN opts[i] ELSE defaultOptions[i]]

\* options.<key> || fallback, for the two string options
optionOr(opts, key, fallback) ==
    IF key \in DOMAIN opts /\ opts[key] # <<>> THEN opts[key] ELSE fallback

\* var url = mathjax + config (strings as sequences of pieces)
scriptUrl(opts) ==
    optionOr(opts, "mathjax", <<"https://cdn.jsdelivr.net/npm/mathjax@3/es5/">>)
    \o optionOr(opts, "config", <<"tex-svg.js">>)

\* finish(): the value of the captured callback after finish returns
callbackAfterFinish_kept(cb) == cb
callbackAfterFinish(cb) == IF cb = "function" THEN "null" ELSE cb

Mjx == <<"m", "j", "x", "-", "e", "q", "n">>
Marker == <<"#">> \o Mjx

HexDigits ==
    {"0", "1", "2", "3", "4", "5", "6", "7", "8", "9",
     "A", "B", "C", "D", "E", "F", "a", "b", "c", "d", "e", "f"}

\* the character a %XX escape stands for (the escapes the documents use)
Unescape(h, l) ==
    CASE h = "3" /\ l \in {"A", "a"} -> ":"
      [] h = "2" /\ l = "3" -> "#"
      [] h = "2" /\ l = "5" -> "%"
      [] OTHER -> "?"

\* a '%' of s is not followed by two hexadecimal digits (an escape's digits
\* are never '%', so every '%' starts an escape)
uriMalformed(s) ==
    \E i \in 1..Len(s) :
        /\ s[i] = "%"
        /\ ~(i + 2 <= Len(s) /\ s[i + 1] \in HexDigits /\ s[i + 2] \in HexDigits)

\* the characters of a well-formed s with every escape replaced
RECURSIVE uriDecode(_)
uriDecode(s) ==
    IF s = <<>> THEN <<>>
    ELSE IF Head(s) = "%"
         THEN <<Unescape(s[2], s[3])>> \o uriDecode(SubSeq(s, 4, Len(s)))
         ELSE <<Head(s)>> \o uriDecode(Tail(s))

\* decodeURIComponent(s): ok is FALSE when it throws URIError
decodeURIComponent(s) ==
    IF uriMalformed(s) THEN [ok |-> FALSE, val |-> <<>>]
    ELSE [ok |-> TRUE, val |-> uriDecode(s)]

\* document.getElementById(id): the first element in document order with
\* that id
getElementById_last(els, id) ==
    LET hits == {k \in 1..Len(els) : els[k].id = id}
    IN  IF hits = {} THEN [found |-> FALSE, index |-> 0]
        ELSE [found |-> TRUE, index |-> CHOOSE k \in hits : \A j \in hits : k >= j]
getElementById(els, id) ==
    LET hits == {k \in 1..Len(els) : els[k].id = id}
    IN  IF hits = {} THEN [found |-> FALSE, index |-> 0]
        ELSE [found |-> TRUE, index |-> CHOOSE k \in hits : \A j \in hits : k <= j]

\* a.href.baseVal is a string only for SVG a elements; an HTML a element's
\* href is a string, whose baseVal is undefined
baseValTruthy(a) == a.svg /\ a.href # <<>>

\* the index the for-of loop over the anchors visits after index i
nextAnchor_stopAfterRewrite(as, i, rewritten) == IF rewritten THEN Len(as) + 1 ELSE i + 1
nextAnchor(as, i, rewritten) == i + 1

\* the loop of fixLinks from anchor i on: the anchors it leaves, and whether
\* it was aborted by an exception
RECURSIVE fixLinksFrom(_, _, _)
fixLinksFrom(as, els, i) ==
    IF i > Len(as) THEN [anchors |-> as, threw |-> FALSE]
    ELSE IF baseValTruthy(as[i]) /\ includes(as[i].href, Marker)
         THEN LET label == decodeURIComponent(substringFrom(as[i].href, 1))
              IN  IF ~label.ok THEN [anchors |-> as, threw |-> TRUE]
                  ELSE LET eqn == getElementById(els, label.val)
                       IN  IF eqn.found /\ els[eqn.index].section.has
                           THEN fixLinksFrom(
                                    [as EXCEPT ![i].href =
                                        <<"#">> \o els[eqn.index].section.val],
                                    els, nextAnchor(as, i, TRUE))
                           ELSE fixLinksFrom(as, els, nextAnchor(as, i, FALSE))
         ELSE fixLinksFrom(as, els, nextAnchor(as, i, FALSE))

fixLinks(as, els) == fixLinksFrom(as, els, 1)

\* RevealMath.init up to the return of loadScript: the configuration is
\* installed and the script element appended to head
MathInit ==
    /\ mathPc = "start"
    /\ windowMathJax' = BuiltInConfig
    /\ script' = [inserted |-> TRUE, type |-> "text/javascript",
                  id |-> "MathJax-script", src |-> scriptUrl(options)]
    /\ callback' = "function"
    /\ mathLog' = mathLog \o <<"config", "insert">>
    /\ mathPc' = "loading"
    /\ UNCHANGED <<options, callbackCalls, notifications, promise, mathSettled,
                   anchors, elements, fixRuns, anchorsRun1, anchorsAtLoad>>
    /\ UNCHANGED printVars

\* finish(): calls the callback if it still is a function; the callback
\* starts the engine and registers the continuation on its startup promise
Finish ==
    IF callback = "function"
    THEN /\ callbackCalls' = callbackCalls + 1
         /\ callback' = callbackAfterFinish(callback)
         /\ mathLog' = mathLog \o <<"load", "defaultReady">>
         /\ promise' = IF promise = "none" THEN "pending" ELSE promise
         /\ mathPc' = IF mathPc = "loading" THEN "started" ELSE mathPc
    ELSE /\ mathLog' = mathLog \o <<"load">>
         /\ UNCHANGED <<callbackCalls, callback, promise, mathPc>>

\* script.onload fires
Onload ==
    /\ script.inserted
    /\ Len(notifications) < MaxNotifications
    /\ notifications' = Append(notifications, "onload")
    /\ Finish
    /\ UNCHANGED <<options, windowMathJax, script, mathSettled,
                   anchors, elements, fixRuns, anchorsRun1, anchorsAtLoad>>
    /\ UNCHANGED printVars

ReadyStates == {"loading", "loaded", "complete"}

\* script.onreadystatechange fires with this.readyState = rs
OnReadyStateChange ==
    /\ script.inserted
    /\ Len(notifications) < MaxNotifications
    /\ \E rs \in ReadyStates :
        /\ notifications' = Append(notifications, rs)
        /\ IF rs = "loaded" THEN Finish
           ELSE UNCHANGED <<callbackCalls, callback, mathLog, promise, mathPc>>
    /\ UNCHANGED <<options, windowMathJax, script, mathSettled,
                   anchors, elements, fixRuns, anchorsRun1, anchorsAtLoad>>
    /\ UNCHANGED printVars

\* the engine fulfils MathJax.startup.promise
EngineFulfils ==
    /\ promise = "pending"
    /\ promise' = "fulfilled"
    /\ mathLog' = Append(mathLog, "fulfilled")
    /\ UNCHANGED <<options, windowMathJax, script, callback, callbackCalls,
                   notifications, mathPc, mathSettled,
                   anchors, elements, fixRuns, anchorsRun1, anchorsAtLoad>>
    /\ UNCHANGED printVars

\* the engine fails: the promise is rejected and the continuation never runs
EngineRejects ==
    /\ promise = "pending"
    /\ promise' = "rejected"
    /\ UNCHANGED <<options, windowMathJax, script, callback, callbackCalls,
                   notifications, mathLog, mathPc, mathSettled,
                   anchors, elements, fixRuns, anchorsRun1, anchorsAtLoad>>
    /\ UNCHANGED printVars

\* the continuation registered with promise.then: Reveal.layout(), fixLinks(),
\* resolve(); an exception thrown by fixLinks leaves resolve() uncalled
Continuation ==
    /\ promise = "fulfilled"
    /\ mathPc = "started"
    /\ \E r \in {fixLinks(anchors, elements)} :
           /\ anchors' = r.anchors
           /\ anchorsRun1' = r.anchors
           /\ fixRuns' = fixRuns + 1
           /\ mathLog' = mathLog \o <<"layout", "fixLinks">>
                                 \o (IF r.threw THEN <<>> ELSE <<"resolve">>)
           /\ mathSettled' = ~r.threw
           /\ mathPc' = IF r.threw THEN "threw" ELSE "done"
    /\ UNCHANGED <<options, windowMathJax, script, callback, callbackCalls,
                   notifications, promise, elements, anchorsAtLoad>>
    /\ UNCHANGED printVars

MathNext ==
    MathInit \/ Onload \/ OnReadyStateChange \/ EngineFulfils \/ EngineRejects
    \/ Continuation

\* fixLinks run on its own
RunFixLinks ==
    /\ fixRuns < MaxFixRuns
    /\ \E r \in {fixLinks(anchors, elements)} :
           /\ anchors' = r.anchors
           /\ anchorsRun1' = IF fixRuns = 0 THEN r.anchors ELSE anchorsRun1
    /\ fixRuns' = fixRuns + 1
    /\ UNCHANGED <<options, windowMathJax, script, callback, callbackCalls,
                   notifications, mathLog, promise, mathPc, mathSettled,
                   elements, anchorsAtLoad>>
    /\ UNCHANGED printVars

LinksNext == RunFixLinks

-----------------------------------------------------------------------------
(* Documents and locations the print plugin is run on *)

Text == [tag |-> "#text", cls |-> "", id |-> 0, kids |-> <<>>]
Footer(n) == [tag |-> "SPAN", cls |-> "footer", id |-> n, kids |-> <<>>]
Wrapper(t, ks) == [tag |-> t, cls |-> "", id |-> 0, kids |-> ks]

Slide(cs, h, bg) == [children |-> cs, minHeight |-> NoAttr, clientHeight |-> h, bgVideo |-> bg]

SeqsUpTo(S, lo, hi) == UNION {[1..n -> S] : n \in lo..hi}

\* the ids of the footers of a slide, in document order
FooterIds(children) ==
    LET ps == getFooters(children)
    IN  [n \in 1..Len(ps) |->
            IF Len(ps[n]) = 1 THEN children[ps[n][1]].id
            ELSE children[ps[n][1]].kids[ps[n][2]].id]

Leaves == {Text} \cup {Footer(n) : n \in 1..MaxFooters}

ChildNodes ==
    {Footer(n) : n \in 1..MaxFooters}
    \cup {Wrapper(t, ks) : t \in {"P", "DIV"}, ks \in SeqsUpTo(Leaves, 1, MaxKids)}

\* slides of up to MaxChildren children whose footers are numbered 1, 2, ...
\* in document order
GeneratedChildren ==
    {cs \in SeqsUpTo(ChildNodes, 0, MaxChildren) :
        LET ids == FooterIds(cs)
        IN  Len(ids) <= MaxFooters /\ \A n \in 1..Len(ids) : ids[n] = n}

SampleDecks ==
    { << Slide(<<Wrapper("P", <<Footer(1)>>), Wrapper("DIV", <<Text>>)>>, 750,
               Attr(<<"b">>)),
         Slide(<<Wrapper("P", <<Text>>)>>, 600, NoAttr) >>,
      << Slide(<<Footer(1)>>, 700, Attr(<<"b", "#", "t", "=", "2">>)) >> }

SampleIframes ==
    { <<>>,
      << [pdf |-> TRUE,  dataSrc |-> Attr(<<"d">>), src |-> NoAttr],
         [pdf |-> FALSE, dataSrc |-> Attr(<<"e">>), src |-> NoAttr],
         [pdf |-> TRUE,  dataSrc |-> NoAttr,        src |-> Attr(<<"s">>)] >> }

SampleVideos ==
    { <<>>,
      << [dataSrc |-> Attr(<<"v">>), src |-> NoAttr, controls |-> TRUE],
         [dataSrc |-> Attr(<<"v", "#", "t", "=", "2">>), src |-> NoAttr, controls |-> TRUE],
         [dataSrc |-> NoAttr, src |-> Attr(<<"w">>), controls |-> TRUE] >> }

Searches ==
    { <<>>,
      <<"?", "p", "r", "i", "n", "t", "-", "p", "d", "f">>,
      <<"?", "P", "R", "I", "N", "T", "-", "P", "D", "F">>,
      <<"?", "x", "&", "P", "r", "i", "n", "t", "-", "p", "D", "f", "&", "y">>,
      <<"?", "p", "r", "i", "n", "t", "p", "d", "f">>,
      <<"?", "p", "r", "i", "n", "t", "-", "p", "d">> }

LecturePath ==
    <<"/", "d", "e", "c", "k", "/", "l", "e", "c", "t", "u", "r", "e", "-", "3",
      ".", "h", "t", "m", "l">>

SamplePaths == {LecturePath, <<"/", "a", ".", "b">>, <<"/">>}

PathAlphabet == {"/", ".", "a", "b"}

GeneratedPaths ==
    {s \in SeqsUpTo(PathAlphabet, 1, MaxPathLen) : s[1] = "/"} \cup {LecturePath}

\* the state of the print plugin and its document before init runs
PrintLoaded(queries, paths, decks) ==
    /\ search \in queries
    /\ pathname \in paths
    /\ webdriver \in BOOLEAN
    /\ printPc = "start"
    /\ printSettled = FALSE
    /\ listeners = <<>>
    /\ title = <<>>
    /\ iframes \in SampleIframes
    /\ videos \in SampleVideos
    /\ slides \in decks
    /\ current = 0
    /\ consoleErrors = <<>>
    /\ readyFired = FALSE
    /\ pdfReadyCount = 0
    /\ timers = 0
    /\ printCalls = 0
    /\ domAtLoad = [title |-> title, iframes |-> iframes, videos |-> videos,
                    slides |-> slides]

\* the math plugin left out of a run
MathIdle ==
    /\ options = <<>>
    /\ windowMathJax = <<>>
    /\ script = [inserted |-> FALSE]
    /\ callback = "null"
    /\ callbackCalls = 0
    /\ notifications = <<>>
    /\ mathLog = <<>>
    /\ promise = "none"
    /\ mathPc = "idle"
    /\ mathSettled = FALSE
    /\ anchors = <<>>
    /\ elements = <<>>
    /\ fixRuns = 0
    /\ anchorsRun1 = <<>>
    /\ anchorsAtLoad = <<>>

PrintInitState == PrintLoaded(Searches, SamplePaths, SampleDecks) /\ MathIdle

\* the print plugin on sample documents
PrintSpec == PrintInitState /\ [][PrintNext]_vars

TitleInitState ==
    PrintLoaded({<<"?", "p", "r", "i", "n", "t", "-", "p", "d", "f">>},
                GeneratedPaths, SampleDecks) /\ MathIdle

\* the print plugin in export mode on generated pathnames
TitleSpec == TitleInitState /\ [][PrintNext]_vars

FooterInitState ==
    PrintLoaded({<<>>, <<"?", "p", "r", "i", "n", "t", "-", "p", "d", "f">>},
                {LecturePath},
                {<<Slide(cs, 600, NoAttr)>> : cs \in GeneratedChildren}) /\ MathIdle

\* the print plugin on generated slides
FooterSpec == FooterInitState /\ [][PrintNext]_vars

-----------------------------------------------------------------------------
(* Properties of RevealPrint *)

Upper(ch) ==
    CASE ch = "p" -> "P" [] ch = "r" -> "R" [] ch = "i" -> "I"
      [] ch = "n" -> "N" [] ch = "t" -> "T" [] ch = "d" -> "D"
      [] ch = "f" -> "F" [] OTHER -> ch

\* the query holds the letters of print-pdf, each in either case
HasPrintPdfAnyCase(q) ==
    \E i \in 0..(Len(q) - Len(PrintPdf)) :
        \A j \in 1..Len(PrintPdf) : q[i + j] \in {PrintPdf[j], Upper(PrintPdf[j])}

ExportMode == HasPrintPdfAnyCase(search)

NoHostEventYet ==
    /\ ~readyFired
    /\ pdfReadyCount = 0
    /\ current = 0
    /\ timers = 0
    /\ printCalls = 0

\* C4: once RevealPrint.init has returned, whatever the export-mode and
\* automation-driver flags and with or without any host event or timer having
\* fired, its promise is settled and the three host listeners
\* (slidechanged -> checkHeight, ready -> setHeight, ready -> fixFooters)
\* are registered.
C4_SettledOnReturn ==
    printPc = "returned" =>
        /\ printSettled
        /\ Registered("slidechanged", "checkHeight") = 1
        /\ Registered("ready", "setHeight") = 1
        /\ Registered("ready", "fixFooters") = 1

\* C4 witness: init has just returned in export mode under an automation
\* driver, no host event or timer has fired, and the promise is settled.
C4_Witness ==
    /\ printPc = "returned"
    /\ printSettled
    /\ NoHostEventYet
    /\ ExportMode
    /\ webdriver

IframesActivated ==
    \A k \in 1..Len(iframes) :
        LET old == domAtLoad.iframes[k]
        IN  IF old.pdf /\ old.dataSrc.has
            THEN iframes[k].src = Attr(old.dataSrc.val)
            ELSE iframes[k] = old

VideosActivated ==
    \A k \in 1..Len(videos) :
        LET old == domAtLoad.videos[k]
        IN  /\ ~videos[k].controls
            /\ IF old.dataSrc.has
               THEN /\ ~videos[k].dataSrc.has
                    /\ videos[k].src.has
                    /\ includes(videos[k].src.val, TimeMark)
                    /\ SubSeq(videos[k].src.val, 1, Len(old.dataSrc.val)) = old.dataSrc.val
               ELSE videos[k].src = old.src

BackgroundVideosUnchanged ==
    \A k \in 1..Len(domAtLoad.slides) : slides[k].bgVideo = domAtLoad.slides[k].bgVideo

DocumentUntouchedByInit ==
    /\ iframes = domAtLoad.iframes
    /\ videos = domAtLoad.videos
    /\ BackgroundVideosUnchanged
    /\ title = domAtLoad.title

\* C5 as stated: after init, the export-only behaviours (iframe and video
\* activation, title derivation, registration of the print listener) have
\* been performed if and only if the query holds print-pdf in any letter
\* case; without it the document is untouched and print is never invoked.
C5_AsStated ==
    printPc = "returned" =>
        /\ ExportMode <=> /\ IframesActivated
                          /\ VideosActivated
                          /\ title # domAtLoad.title
                          /\ Registered("pdf-ready", "printLater") = 1
        /\ ~ExportMode => DocumentUntouchedByInit /\ printCalls = 0

\* C5 amended: after init, iframe and video activation and title derivation
\* have been performed if and only if the query holds print-pdf in any letter
\* case; the print listener is registered if and only if, in addition,
\* navigator.webdriver is false; without print-pdf the document is untouched
\* and print is never invoked.
C5_ExportOnly ==
    printPc = "returned" =>
        /\ ExportMode => IframesActivated /\ VideosActivated
        /\ ExportMode <=> title # domAtLoad.title
        /\ (ExportMode /\ ~webdriver) <=> Registered("pdf-ready", "printLater") = 1
        /\ ~ExportMode => /\ DocumentUntouchedByInit
                          /\ printCalls = 0
                          /\ Registered("pdf-ready", "printLater") = 0

\* C5 witness: init ran with an upper-case PRINT-PDF query and activated a
\* deferred iframe and a deferred video.
C5_Witness ==
    /\ printPc = "returned"
    /\ includes(search, <<"P", "R", "I", "N", "T">>)
    /\ Len(iframes) > 0
    /\ iframes[1].src = Attr(<<"d">>)
    /\ Len(videos) > 0
    /\ videos[1].src = Attr(<<"v", "#", "t", "=", "0", ".", "5">>)
    /\ title # <<>>

\* the last path segment and, when it has the form <base>.<ext>, its base
LastSegment(path) == SubSeq(path, lastIndexOf(path, "/") + 2, Len(path))
IsFileName(path) ==
    LET seg == LastSegment(path)
    IN  lastIndexOf(seg, ".") >= 1 /\ lastIndexOf(seg, ".") < Len(seg) - 1
BaseName(path) == SubSeq(LastSegment(path), 1, lastIndexOf(LastSegment(path), "."))

\* C6: in export mode, for every pathname whose last segment is a file name
\* <base>.<ext>, init leaves the document title equal to <base> followed by
\* "pdf"; /deck/lecture-3.html gives lecture-3pdf.
C6_TitleIsBasePdf ==
    (printPc = "returned" /\ ExportMode /\ IsFileName(pathname)) =>
        title = BaseName(pathname) \o <<"p", "d", "f">>

\* the footers of a slide with the tag of their parent element
FooterParents(children) ==
    LET ps == getFooters(children)
    IN  {<<FooterIds(children)[n],
           IF Len(ps[n]) = 1 THEN "SECTION" ELSE children[ps[n][1]].tag>> :
            n \in 1..Len(ps)}

\* C7: after fixFooters ran on 'ready', in every slide each footer whose
\* parent was a P is a direct child of the slide, no P left without child
\* nodes remains, and each footer whose parent was not a P still has the
\* parent it had.
C7_FootersRelocated ==
    readyFired =>
        \A k \in 1..Len(slides) :
            LET before == FooterParents(domAtLoad.slides[k].children)
                after == FooterParents(slides[k].children)
            IN  /\ \A fp \in before :
                       IF fp[2] = "P" THEN <<fp[1], "SECTION">> \in after
                       ELSE fp \in after
                /\ \A i \in 1..Len(slides[k].children) :
                       slides[k].children[i].tag = "P" =>
                           Len(slides[k].children[i].kids) > 0

\* print invocations and pending timers together
PrintsScheduled == printCalls + timers

\* C10 as stated: window.print runs only after init in export mode without an
\* automation driver, only after a pdf-ready signal whose delay has elapsed,
\* and at most once however many pdf-ready signals the host sends.
C10_AsStated ==
    /\ printCalls > 0 => ExportMode /\ ~webdriver /\ printPc = "returned"
    /\ printCalls <= pdfReadyCount
    /\ printCalls <= 1

\* C10 amended: window.print runs only after init in export mode without an
\* automation driver and only after a pdf-ready signal whose delay has
\* elapsed; the listener is not one-shot: every pdf-ready signal starts one
\* timer and print runs once per elapsed timer, so at most once per signal.
C10_PrintPerSignal ==
    /\ printCalls > 0 => ExportMode /\ ~webdriver /\ printPc = "returned"
    /\ PrintsScheduled =
          (IF ExportMode /\ ~webdriver /\ printPc = "returned"
           THEN pdfReadyCount ELSE 0)

\* C10 witness: print has run after a pdf-ready signal.
C10_Witness ==
    /\ printCalls = 1
    /\ pdfReadyCount = 1
    /\ timers = 0

-----------------------------------------------------------------------------
(* Configurations and documents the math plugin is run on *)

OptionKeys == {"mathjax", "config", "tex", "svg"}

\* a value the presentation may give under each key of Reveal's math option
CallerValue(k) ==
    CASE k = "mathjax" -> <<"lib/mathjax/">>
      [] k = "config" -> <<"tex-chtml.js">>
      [] k = "tex" -> [tags |-> "none"]
      [] k = "svg" -> [fontCache |-> "global", scale |-> "1"]

CallerOptions == {[k \in K |-> CallerValue(k)] : K \in SUBSET OptionKeys}

Slide7 == <<"s", "l", "i", "d", "e", "-", "7">>
Eq3 == Mjx \o <<":", "3">>
Eq4 == Mjx \o <<":", "4">>
Eq4Escaped == Mjx \o <<"%", "3", "A", "4">>

\* an element with an id; section is the id of the closest section element
\* (the element itself when it is a section), absent when there is none
Element(i, sec) == [id |-> i, section |-> sec]

SampleElements ==
    { <<>>,
      <<Element(Slide7, Attr(Slide7)), Element(Eq3, Attr(Slide7)),
        Element(Eq4, Attr(Slide7))>>,
      <<Element(Eq3, NoAttr)>>,
      <<Element(Eq3, Attr(<<>>))>>,
      <<Element(Eq4Escaped, Attr(Eq4Escaped)), Element(Eq3, Attr(Eq4Escaped)),
        Element(Slide7, Attr(Slide7)), Element(Eq4, Attr(Slide7))>>,
      <<Element(Slide7, Attr(Slide7)), Element(Eq4, Attr(Slide7)),
        Element(Eq4, Attr(Eq4)), Element(Eq3, Attr(Eq4))>> }

SlideSevenOnly ==
    { <<Element(Slide7, Attr(Slide7)), Element(Eq3, Attr(Slide7)),
        Element(Eq4, Attr(Slide7))>> }

Anchor(isSvg, h) == [svg |-> isSvg, href |-> h]

AnchorKinds ==
    { Anchor(TRUE, <<"#">> \o Eq3),
      Anchor(TRUE, <<"#">> \o Eq4Escaped),
      Anchor(TRUE, <<"x", "#">> \o Eq3),
      Anchor(TRUE, Marker \o <<"%">>),
      Anchor(TRUE, <<"#">> \o Slide7),
      Anchor(TRUE, <<>>),
      Anchor(FALSE, <<"#">> \o Eq3) }

GeneratedAnchors == SeqsUpTo(AnchorKinds, 0, MaxLinks)

SampleAnchors ==
    { <<>>,
      <<Anchor(TRUE, <<"#">> \o Eq3), Anchor(FALSE, <<"#">> \o Eq3)>>,
      <<Anchor(TRUE, Marker \o <<"%">>), Anchor(TRUE, <<"#">> \o Eq3)>> }

\* the print plugin left out of a run
PrintIdle ==
    /\ search = <<>>
    /\ pathname = <<"/">>
    /\ webdriver = FALSE
    /\ printPc = "idle"
    /\ printSettled = FALSE
    /\ listeners = <<>>
    /\ title = <<>>
    /\ iframes = <<>>
    /\ videos = <<>>
    /\ slides = <<>>
    /\ current = 0
    /\ consoleErrors = <<>>
    /\ readyFired = FALSE
    /\ pdfReadyCount = 0
    /\ timers = 0
    /\ printCalls = 0
    /\ domAtLoad = [title |-> <<>>, iframes |-> <<>>, videos |-> <<>>, slides |-> <<>>]

\* the state of the math plugin and its document before init runs
MathLoaded(pc, callerOptions, anchorLists, documents) ==
    /\ options \in callerOptions
    /\ windowMathJax = <<>>
    /\ script = [inserted |-> FALSE]
    /\ callback = "null"
    /\ callbackCalls = 0
    /\ notifications = <<>>
    /\ mathLog = <<>>
    /\ promise = "none"
    /\ mathPc = pc
    /\ mathSettled = FALSE
    /\ anchors \in anchorLists
    /\ elements \in documents
    /\ fixRuns = 0
    /\ anchorsRun1 = anchors
    /\ anchorsAtLoad = anchors

MathInitState == MathLoaded("start", CallerOptions, SampleAnchors, SampleElements) /\ PrintIdle

\* the math plugin's initialisation
MathSpec == MathInitState /\ [][MathNext]_vars

FairMathInitState == MathLoaded("start", {<<>>}, SampleAnchors, SlideSevenOnly) /\ PrintIdle

\* the initialisation with default options and the promise continuation
\* scheduled as a microtask: once the startup promise is fulfilled, the
\* continuation runs
FairMathSpec == FairMathInitState /\ [][MathNext]_vars /\ WF_vars(Continuation)

LinksInitState == MathLoaded("idle", {<<>>}, GeneratedAnchors, SampleElements) /\ PrintIdle

\* fixLinks run repeatedly on generated documents
LinksSpec == LinksInitState /\ [][LinksNext]_vars

-----------------------------------------------------------------------------
(* Properties of RevealMath *)

Qualifying(n) == n \in {"onload", "loaded"}

LoadNotified == \E i \in 1..Len(notifications) : Qualifying(notifications[i])

\* C1: whatever loading notifications (onload, onreadystatechange with
\* readyState 'loaded') have fired on the script element, in any order and
\* number, the callback has been invoked exactly once if at least one of them
\* has fired, and not at all otherwise.
C1_CallbackOnce == callbackCalls = (IF LoadNotified THEN 1 ELSE 0)

\* C1 witness: both notification paths have fired and the callback ran once.
C1_Witness ==
    /\ callbackCalls = 1
    /\ \E i \in 1..Len(notifications) : notifications[i] = "onload"
    /\ \E i \in 1..Len(notifications) : notifications[i] = "loaded"

\* C2: once init has installed window.MathJax, every key of the caller's
\* options is in it with the caller's value, and every other key has the
\* built-in value: the payload is defaults(options, built-in).
C2_PayloadIsOverlay ==
    mathPc \notin {"start", "idle"} =>
        /\ \A k \in DOMAIN options :
               k \in DOMAIN windowMathJax /\ windowMathJax[k] = options[k]
        /\ \A k \in (DOMAIN BuiltInConfig) \ (DOMAIN options) :
               k \in DOMAIN windowMathJax /\ windowMathJax[k] = BuiltInConfig[k]
        /\ windowMathJax = defaults(options, BuiltInConfig)

\* the position of the first occurrence of event e in the log, 0 if none
Pos(e) ==
    LET hits == {i \in 1..Len(mathLog) : mathLog[i] = e}
    IN  IF hits = {} THEN 0 ELSE CHOOSE i \in hits : \A j \in hits : i <= j

Before(a, b) == Pos(a) > 0 /\ Pos(a) < Pos(b)

SettledInOrder ==
    mathSettled =>
        /\ Before("config", "insert")
        /\ Before("insert", "load")
        /\ Before("load", "defaultReady")
        /\ Before("defaultReady", "fulfilled")
        /\ Before("fulfilled", "layout")
        /\ Before("layout", "fixLinks")
        /\ Before("fixLinks", "resolve")

\* C3: the handle of RevealMath.init settles only after configuration,
\* script insertion, load notification, engine start, fulfilment of the
\* startup promise, layout and link fix-up, in this order (so never without
\* the load notification or the engine's readiness); and once the load
\* notification and the engine's readiness have both occurred, it
\* eventually settles.
C3_SettlesAfterChain ==
    /\ []SettledInOrder
    /\ (LoadNotified /\ promise = "fulfilled") ~> mathSettled

\* the id a link's target addresses: what follows its first character, decoded
LabelOf(href) == decodeURIComponent(substringFrom(href, 1))

\* an SVG link with a non-empty target containing the marker
Marked(a) == a.svg /\ a.href # <<>> /\ includes(a.href, Marker)

\* the first element of the document with the given id, as a set (empty if none)
FirstWithId(i) ==
    {k \in 1..Len(elements) :
        elements[k].id = i /\ \A j \in 1..(k - 1) : elements[j].id # i}

\* the anchors from the first marked link with a malformed target on
AbortedFrom ==
    LET bad == {k \in 1..Len(anchorsAtLoad) :
                   Marked(anchorsAtLoad[k]) /\ uriMalformed(anchorsAtLoad[k].href)}
    IN  IF bad = {} THEN Len(anchorsAtLoad) + 1
        ELSE CHOOSE k \in bad : \A j \in bad : k <= j

\* C8 as stated: after fixLinks, every anchor whose target contains the
\* marker and whose decoded fragment names an element inside a slide has the
\* target '#' + that slide's id; every other anchor is unchanged.
C8_AsStated ==
    fixRuns >= 1 =>
        /\ Len(anchorsRun1) = Len(anchorsAtLoad)
        /\ \A k \in 1..Len(anchorsAtLoad) :
            LET a == anchorsAtLoad[k]
                hash == CHOOSE i \in 1..(Len(a.href) + 1) :
                            /\ i = Len(a.href) + 1 \/ a.href[i] = "#"
                            /\ \A j \in 1..(i - 1) : a.href[j] # "#"
                fragment == decodeURIComponent(SubSeq(a.href, hash + 1, Len(a.href)))
                hit == IF fragment.ok THEN FirstWithId(fragment.val) ELSE {}
            IN  IF /\ includes(a.href, Marker)
                   /\ \E e \in hit : elements[e].section.has
                THEN \A e \in hit :
                        anchorsRun1[k].href = <<"#">> \o elements[e].section.val
                ELSE anchorsRun1[k] = a

\* C8 amended: fixLinks visits the anchors in document order and stops, with
\* an exception, at the first SVG anchor whose target contains the marker and
\* is not valid percent-encoding. Every SVG anchor visited before that whose
\* target (href.baseVal) is non-empty, contains '#mjx-eqn' and, with its
\* first character removed and percent-decoded, is the id of an element
\* inside a slide, gets the target '#' + that slide's id; every other anchor
\* (HTML anchors included) is unchanged.
C8_SvgLinksRewritten ==
    fixRuns >= 1 =>
        /\ Len(anchorsRun1) = Len(anchorsAtLoad)
        /\ \A k \in 1..Len(anchorsAtLoad) :
            LET a == anchorsAtLoad[k]
                hit == IF Marked(a) /\ ~uriMalformed(a.href)
                       THEN FirstWithId(LabelOf(a.href).val) ELSE {}
            IN  IF /\ k < AbortedFrom
                   /\ \E e \in hit : elements[e].section.has
                THEN \A e \in hit :
                        anchorsRun1[k] =
                            Anchor(TRUE, <<"#">> \o elements[e].section.val)
                ELSE anchorsRun1[k] = a

\* C8 witness: the SVG link #mjx-eqn:3, whose element lies in slide-7, has
\* become #slide-7, and an HTML link with the same target is unchanged.
C8_Witness ==
    /\ fixRuns = 1
    /\ Len(anchorsAtLoad) = 2
    /\ anchorsAtLoad[1] = Anchor(TRUE, <<"#">> \o Eq3)
    /\ anchors[1] = Anchor(TRUE, <<"#">> \o Slide7)
    /\ anchors[2] = Anchor(FALSE, <<"#">> \o Eq3)

\* C9 as stated: a second run of fixLinks changes nothing, whatever the
\* document.
C9_AsStated == fixRuns >= 2 => anchors = anchorsRun1

\* no slide id makes a rewritten target '#' + id contain the marker again
NoMarkerInSlideIds ==
    \A k \in 1..Len(elements) :
        elements[k].section.has =>
            ~includes(<<"#">> \o elements[k].section.val, Marker)

\* C9 amended: in every document none of whose slide ids, prefixed with '#',
\* contains '#mjx-eqn', a second run of fixLinks changes nothing.
C9_IdempotentOnPlainSlideIds ==
    (fixRuns >= 2 /\ NoMarkerInSlideIds) => anchors = anchorsRun1

\* C9 witness: the first run rewrote a link and the second left everything
\* as it was.
C9_Witness ==
    /\ fixRuns = 2
    /\ NoMarkerInSlideIds
    /\ anchorsRun1 # anchorsAtLoad
    /\ anchors = anchorsRun1

=============================================================================
